---- MODULE Spec2Model ----
(***************************************************************************)
(* The transparency (tRNS) chunk handler png_handle_tRNS of                *)
(* function_png_handle_tRNS.c as a state machine over one decode session.  *)
(*                                                                         *)
(* png   : the fields of *png_ptr the handler reads or writes, and        *)
(*         trans_alpha, the storage its alpha pointer points to            *)
(* info  : the fields of *info_ptr that png_set_tRNS fills                 *)
(* call  : the handler call that has just ended (its arguments, the        *)
(*         chunk's stream, its outcome and what it took from the stream)   *)
(* entry : png and info as they were when that call was entered            *)
(***************************************************************************)
EXTENDS Integers, Sequences, FiniteSets, TLC

VARIABLES png, info, call, entry

vars == <<png, info, call, entry>>

(***************************************************************************)
(* Program constants.                                                      *)
(***************************************************************************)
PNG_MAX_PALETTE_LENGTH == 256
PNG_COLOR_TYPE_GRAY == 0
PNG_COLOR_TYPE_RGB == 2
PNG_COLOR_TYPE_PALETTE == 3
PNG_COLOR_TYPE_GRAY_ALPHA == 4
PNG_COLOR_TYPE_RGB_ALPHA == 6

\* The bits of png_ptr->mode the handler tests, as a set of flag names.
ModeFlags == {"PNG_HAVE_IHDR", "PNG_HAVE_PLTE", "PNG_HAVE_IDAT"}

ColorTypes == {PNG_COLOR_TYPE_GRAY, PNG_COLOR_TYPE_RGB, PNG_COLOR_TYPE_PALETTE,
               PNG_COLOR_TYPE_GRAY_ALPHA, PNG_COLOR_TYPE_RGB_ALPHA}

\* The largest length the framing layer passes in its png_uint_32 argument.
PNG_UINT_31_MAX == 2147483647

(***************************************************************************)
(* Bounds of the model and the inputs drawn from them.                     *)
(***************************************************************************)
\* Chunk lengths 0..MaxSmallLen are all tried, next to the lengths around
\* the Rgb size and around the palette limit and the largest length.
MaxSmallLen == 3
\* A small palette size, next to 0, the limit and one more than the limit.
SmallPalette == 2
\* The number of distinct byte streams a chunk's payload is drawn from.
NumSeeds == 3

Lengths == (0 .. MaxSmallLen) \cup {6, PNG_MAX_PALETTE_LENGTH,
                                    PNG_MAX_PALETTE_LENGTH + 1,
                                    PNG_UINT_31_MAX}

\* num_palette is a png_uint_16: the handler itself compares the length with
\* PNG_MAX_PALETTE_LENGTH too, so one size above the limit is tried.
PaletteSizes == {0, SmallPalette, PNG_MAX_PALETTE_LENGTH,
                 PNG_MAX_PALETTE_LENGTH + 1}

Seeds == 1 .. NumSeeds

\* Byte i (from 1) of the payload stream a seed stands for.
StreamByte(seed, i) ==
    IF seed = 1 /\ i <= 6 THEN <<0, 42, 0, 2, 0, 3>>[i]
    ELSE IF seed = 2 /\ i <= 6 THEN <<255, 255, 128, 0, 1, 255>>[i]
    ELSE IF seed = 3 /\ i <= 6 THEN <<10, 20, 30, 40, 50, 60>>[i]
    ELSE (seed * 37 + i * 11) % 256

\* Where the stream of a chunk ends: "none" holds the whole chunk, "payload"
\* ends one byte before the end of the payload, "crc" ends inside the four
\* checksum bytes that follow the payload.
Truncations == {"none", "payload", "crc"}

\* What the uninitialised bytes of readbuf may hold.
UninitBytes == {0, 170}

\* The arguments of one handler call and the chunk it is called on.
Chunks ==
    { c \in [length : Lengths, seed : Seeds, crc_ok : BOOLEAN,
             trunc : Truncations, info_null : BOOLEAN] :
        /\ (c.trunc = "payload" => c.length >= 1)
        \* the content of a truncated stream is never looked at twice
        /\ (c.trunc # "none" => c.seed = 1 /\ c.crc_ok) }

(***************************************************************************)
(* The chunk cursor: png_crc_read and png_crc_finish.                      *)
(***************************************************************************)
\* The number of payload bytes the stream holds.
Avail(c) == IF c.trunc = "payload" THEN c.length - 1 ELSE c.length

\* png_crc_read(png_ptr, buf, n) at stream position pos succeeds.
CanRead(c, pos, n) == pos + n <= Avail(c)

\* The n bytes png_crc_read stores in buf, in stream order.
png_crc_read(c, pos, n) == [i \in 1 .. n |-> StreamByte(c.seed, pos + i)]

\* png_crc_finish(png_ptr, skip) at stream position pos reads to the end of
\* the checksum without running out of stream.
CanFinish(c, pos, skip) == pos + skip <= Avail(c) /\ c.trunc # "crc"

\* Its return value: nonzero when the checksum does not match.
png_crc_finish(c) == IF c.crc_ok THEN 0 ELSE 1

\* png_get_uint_16(buf + off): two bytes, most significant first.
png_get_uint_16(buf, off) == (buf[off + 1] * 256 + buf[off + 2]) % 65536

\* readbuf after png_crc_read stored bytes in it: the entries from
\* Len(bytes) + 1 on are uninitialised, and hold u.
Readbuf(bytes, u) == [stored |-> bytes, rest |-> u]

\* readbuf[i - 1], counting i from 1.
ReadbufAt(readbuf, i) ==
    IF i <= Len(readbuf.stored) THEN readbuf.stored[i] ELSE readbuf.rest

(***************************************************************************)
(* Outcomes.  The handler returns void: its outcome is the error routine   *)
(* it calls on the way out, named here as the specification names it.      *)
(***************************************************************************)
FatalOutcomes == {"MissingHeader", "ShortRead"}
BenignOutcomes == {"OutOfPlaceAfterImageData", "Duplicate",
                   "OutOfPlaceBeforePalette", "InvalidLength",
                   "InvalidForAlphaMode", "ChecksumMismatch"}

\* What a call leaves behind: the two records, the outcome, the number of
\* payload bytes taken from the stream, the number of bytes stored in
\* readbuf, the number of png_crc_finish calls, and the stream position at
\* which the checksum was verified (-1: never).  fatal: the call ended in an
\* error routine that does not return.
Result(p, inf, outcome, fatal, consumed, stored, finishes, crc_at) ==
    [png |-> p, info |-> inf, outcome |-> outcome, fatal |-> fatal,
     consumed |-> consumed, stored |-> stored, finishes |-> finishes,
     crc_at |-> crc_at]

\* png_chunk_error: a fatal error leaves the handler at once (it does not
\* return), before anything is read.
png_chunk_error(p, inf, c, outcome) ==
    Result(p, inf, outcome, TRUE, 0, 0, 0, -1)

\* The stream ends inside a read: the read callback's error is fatal.
ShortRead(p, inf, c, stored, finishes) ==
    Result(p, inf, "ShortRead", TRUE, Avail(c), stored, finishes, -1)

\* Reject without the skip: the checksum is verified where the stream stands.
Reject_NoSkip(p, inf, c, outcome) ==
    IF ~CanFinish(c, 0, 0) THEN ShortRead(p, inf, c, 0, 1)
    ELSE Result(p, inf, outcome, FALSE, 0, 0, 1, 0)

\* png_crc_finish(png_ptr, length); png_chunk_benign_error(...); return;
Reject(p, inf, c, outcome) ==
    IF ~CanFinish(c, 0, c.length) THEN ShortRead(p, inf, c, 0, 1)
    ELSE Result(p, inf, outcome, FALSE, c.length, 0, 1, c.length)

\* png_set_tRNS(png_ptr, info_ptr, trans_alpha, num_trans, trans_color):
\* nothing without an info record; else the record takes its own copy of
\* the first num_trans bytes of trans_alpha, the colour and the count.
\* trans_alpha_at names the storage the record's alpha pointer points to:
\* "NULL", "info" (a buffer of its own) or "readbuf" (the handler's).
png_set_tRNS(inf, c, trans_alpha, num_trans, trans_color) ==
    IF c.info_null THEN inf
    ELSE [valid |-> TRUE,
          num_trans |-> num_trans,
          trans_alpha |-> IF num_trans >= 1 /\ num_trans <= PNG_MAX_PALETTE_LENGTH
                          THEN [i \in 1 .. num_trans |-> ReadbufAt(trans_alpha, i)]
                          ELSE <<>>,
          trans_alpha_at |-> IF num_trans >= 1 /\ num_trans <= PNG_MAX_PALETTE_LENGTH
                             THEN "info" ELSE "NULL",
          trans_color |-> trans_color]

\* What the call of png_set_tRNS leaves in the png_struct: "the png_struct
\* ends up with a pointer to the tRNS buffer owned by the png_info".  set is
\* the info record after the call.
StructAfterSet(p, c, set) ==
    IF c.info_null THEN p ELSE [p EXCEPT !.trans_alpha = set.trans_alpha_at]

(***************************************************************************)
(* png_handle_tRNS, branch by branch.  p and inf are *png_ptr and          *)
(* *info_ptr, c the call's arguments and chunk, u the uninitialised        *)
(* content of readbuf.                                                     *)
(***************************************************************************)
\* FinishAndSet with the return value of png_crc_finish ignored.
FinishAndSet_NoGate(p, inf, c, pos, readbuf, stored) ==
    IF ~CanFinish(c, pos, 0) THEN ShortRead(p, inf, c, stored, 1)
    ELSE LET set == png_set_tRNS(inf, c, readbuf, p.num_trans, p.trans_color)
         IN  Result(StructAfterSet(p, c, set), set, "Ok", FALSE,
                    pos, stored, 1, pos)

\* FinishAndSet with png_set_tRNS called ahead of png_crc_finish.
FinishAndSet_SetFirst(p, inf, c, pos, readbuf, stored) ==
    LET set == png_set_tRNS(inf, c, readbuf, p.num_trans, p.trans_color)
        p1 == StructAfterSet(p, c, set)
    IN  IF ~CanFinish(c, pos, 0) THEN ShortRead(p1, set, c, stored, 1)
        ELSE IF png_crc_finish(c) # 0
        THEN Result([p1 EXCEPT !.num_trans = 0], set, "ChecksumMismatch",
                    FALSE, pos, stored, 1, pos)
        ELSE Result(p1, set, "Ok", FALSE, pos, stored, 1, pos)

\* FinishAndSet that, called without the info record, stores the bytes read
\* through the alpha pointer the png_struct holds.
FinishAndSet_ThroughAlias(p, inf, c, pos, readbuf, stored) ==
    IF ~CanFinish(c, pos, 0) THEN ShortRead(p, inf, c, stored, 1)
    ELSE IF png_crc_finish(c) # 0
    THEN Result([p EXCEPT !.num_trans = 0], inf, "ChecksumMismatch", FALSE,
                pos, stored, 1, pos)
    ELSE LET set == png_set_tRNS(inf, c, readbuf, p.num_trans, p.trans_color)
             through == [inf EXCEPT !.trans_alpha =
                            [i \in 1 .. Len(@) |-> ReadbufAt(readbuf, i)]]
         IN  Result(StructAfterSet(p, c, set),
                    IF c.info_null /\ p.trans_alpha = "info"
                    THEN through ELSE set,
                    "Ok", FALSE, pos, stored, 1, pos)

\* FinishAndSet that marks the info record as holding a tRNS chunk when the
\* checksum fails.
FinishAndSet_MarksOnMismatch(p, inf, c, pos, readbuf, stored) ==
    IF ~CanFinish(c, pos, 0) THEN ShortRead(p, inf, c, stored, 1)
    ELSE IF png_crc_finish(c) # 0
    THEN Result([p EXCEPT !.num_trans = 0],
                IF c.info_null THEN inf ELSE [inf EXCEPT !.valid = TRUE],
                "ChecksumMismatch", FALSE, pos, stored, 1, pos)
    ELSE LET set == png_set_tRNS(inf, c, readbuf, p.num_trans, p.trans_color)
         IN  Result(StructAfterSet(p, c, set), set, "Ok", FALSE,
                    pos, stored, 1, pos)

\* if (png_crc_finish(png_ptr, 0) != 0) { num_trans = 0; return; }
\* png_set_tRNS(png_ptr, info_ptr, readbuf, num_trans, &trans_color);
\* pos is the stream position, stored the number of bytes put in readbuf.
FinishAndSet(p, inf, c, pos, readbuf, stored) ==
    IF ~CanFinish(c, pos, 0) THEN ShortRead(p, inf, c, stored, 1)
    ELSE IF png_crc_finish(c) # 0
    THEN Result([p EXCEPT !.num_trans = 0], inf, "ChecksumMismatch", FALSE,
                pos, stored, 1, pos)
    ELSE LET set == png_set_tRNS(inf, c, readbuf, p.num_trans, p.trans_color)
         IN  Result(StructAfterSet(p, c, set), set, "Ok", FALSE,
                    pos, stored, 1, pos)

\* HandleGray with the two bytes of the sample taken low byte first.
HandleGray_LowFirst(p, inf, c, u) ==
    IF c.length # 2 THEN Reject(p, inf, c, "InvalidLength")
    ELSE IF ~CanRead(c, 0, 2) THEN ShortRead(p, inf, c, 0, 0)
    ELSE LET buf == png_crc_read(c, 0, 2)
             p1 == [p EXCEPT !.num_trans = 1,
                             !.trans_color.gray =
                                 png_get_uint_16(<<buf[2], buf[1]>>, 0)]
         IN  FinishAndSet(p1, inf, c, 2, Readbuf(<<>>, u), 0)

\* color_type == PNG_COLOR_TYPE_GRAY
HandleGray(p, inf, c, u) ==
    IF c.length # 2 THEN Reject(p, inf, c, "InvalidLength")
    ELSE IF ~CanRead(c, 0, 2) THEN ShortRead(p, inf, c, 0, 0)
    ELSE LET buf == png_crc_read(c, 0, 2)
             p1 == [p EXCEPT !.num_trans = 1,
                             !.trans_color.gray = png_get_uint_16(buf, 0)]
         IN  FinishAndSet(p1, inf, c, 2, Readbuf(<<>>, u), 0)

\* HandleRgb with the green and blue samples taken from each other's bytes.
HandleRgb_Swapped(p, inf, c, u) ==
    IF c.length # 6 THEN Reject(p, inf, c, "InvalidLength")
    ELSE IF ~CanRead(c, 0, c.length) THEN ShortRead(p, inf, c, 0, 0)
    ELSE LET buf == png_crc_read(c, 0, c.length)
             p1 == [p EXCEPT !.num_trans = 1,
                             !.trans_color.red = png_get_uint_16(buf, 0),
                             !.trans_color.green = png_get_uint_16(buf, 4),
                             !.trans_color.blue = png_get_uint_16(buf, 2)]
         IN  FinishAndSet(p1, inf, c, c.length, Readbuf(<<>>, u), 0)

\* color_type == PNG_COLOR_TYPE_RGB
HandleRgb(p, inf, c, u) ==
    IF c.length # 6 THEN Reject(p, inf, c, "InvalidLength")
    ELSE IF ~CanRead(c, 0, c.length) THEN ShortRead(p, inf, c, 0, 0)
    ELSE LET buf == png_crc_read(c, 0, c.length)
             p1 == [p EXCEPT !.num_trans = 1,
                             !.trans_color.red = png_get_uint_16(buf, 0),
                             !.trans_color.green = png_get_uint_16(buf, 2),
                             !.trans_color.blue = png_get_uint_16(buf, 4)]
         IN  FinishAndSet(p1, inf, c, c.length, Readbuf(<<>>, u), 0)

\* PaletteLengthInvalid with >= for > in the comparison with num_palette.
PaletteLengthInvalid_OffByOne(p, c) ==
    \/ c.length >= p.num_palette
    \/ c.length > PNG_MAX_PALETTE_LENGTH
    \/ c.length = 0

\* PaletteLengthInvalid without the comparison with PNG_MAX_PALETTE_LENGTH.
PaletteLengthInvalid_NoMax(p, c) ==
    \/ c.length > p.num_palette
    \/ c.length = 0

\* PaletteLengthInvalid without the test for an empty chunk.
PaletteLengthInvalid_NoZero(p, c) ==
    \/ c.length > p.num_palette
    \/ c.length > PNG_MAX_PALETTE_LENGTH

\* The length test of the palette branch: the chunk is refused when it
\* holds.
PaletteLengthInvalid(p, c) ==
    \/ c.length > p.num_palette
    \/ c.length > PNG_MAX_PALETTE_LENGTH
    \/ c.length = 0

\* color_type == PNG_COLOR_TYPE_PALETTE
HandlePalette(p, inf, c, u) ==
    IF "PNG_HAVE_PLTE" \notin p.mode
    THEN Reject(p, inf, c, "OutOfPlaceBeforePalette")
    ELSE IF PaletteLengthInvalid(p, c) THEN Reject(p, inf, c, "InvalidLength")
    ELSE IF ~CanRead(c, 0, c.length) THEN ShortRead(p, inf, c, Avail(c), 0)
    ELSE LET bytes == png_crc_read(c, 0, c.length)
             p1 == [p EXCEPT !.num_trans = c.length % 65536]
         IN  FinishAndSet(p1, inf, c, c.length, Readbuf(bytes, u), c.length)

\* Any other colour type: the two with an alpha channel.
HandleAlpha(p, inf, c) == Reject(p, inf, c, "InvalidForAlphaMode")

\* Decode with the gray branch taken for gray with alpha as well.
Decode_AlphaAsGray(p, inf, c, u) ==
    IF p.color_type \in {PNG_COLOR_TYPE_GRAY, PNG_COLOR_TYPE_GRAY_ALPHA}
    THEN HandleGray(p, inf, c, u)
    ELSE IF p.color_type = PNG_COLOR_TYPE_RGB THEN HandleRgb(p, inf, c, u)
    ELSE IF p.color_type = PNG_COLOR_TYPE_PALETTE THEN HandlePalette(p, inf, c, u)
    ELSE HandleAlpha(p, inf, c)

\* The colour-type dispatch.
Decode(p, inf, c, u) ==
    IF p.color_type = PNG_COLOR_TYPE_GRAY THEN HandleGray(p, inf, c, u)
    ELSE IF p.color_type = PNG_COLOR_TYPE_RGB THEN HandleRgb(p, inf, c, u)
    ELSE IF p.color_type = PNG_COLOR_TYPE_PALETTE THEN HandlePalette(p, inf, c, u)
    ELSE HandleAlpha(p, inf, c)

\* png_handle_tRNS without the test for an earlier tRNS chunk.
png_handle_tRNS_NoDuplicate(p, inf, c, u) ==
    IF "PNG_HAVE_IHDR" \notin p.mode
    THEN png_chunk_error(p, inf, c, "MissingHeader")
    ELSE IF "PNG_HAVE_IDAT" \in p.mode
    THEN Reject(p, inf, c, "OutOfPlaceAfterImageData")
    ELSE Decode(p, inf, c, u)

\* png_handle_tRNS with a missing header reported as a benign error.
png_handle_tRNS_BenignHeader(p, inf, c, u) ==
    IF "PNG_HAVE_IHDR" \notin p.mode
    THEN Reject(p, inf, c, "MissingHeader")
    ELSE IF "PNG_HAVE_IDAT" \in p.mode
    THEN Reject(p, inf, c, "OutOfPlaceAfterImageData")
    ELSE IF ~c.info_null /\ inf.valid
    THEN Reject(p, inf, c, "Duplicate")
    ELSE Decode(p, inf, c, u)

\* png_handle_tRNS with the duplicate test ahead of the image-data test.
png_handle_tRNS_DupFirst(p, inf, c, u) ==
    IF "PNG_HAVE_IHDR" \notin p.mode
    THEN png_chunk_error(p, inf, c, "MissingHeader")
    ELSE IF ~c.info_null /\ inf.valid
    THEN Reject(p, inf, c, "Duplicate")
    ELSE IF "PNG_HAVE_IDAT" \in p.mode
    THEN Reject(p, inf, c, "OutOfPlaceAfterImageData")
    ELSE Decode(p, inf, c, u)

\* The whole handler: the three tests on the session, then the dispatch.
png_handle_tRNS(p, inf, c, u) ==
    IF "PNG_HAVE_IHDR" \notin p.mode
    THEN png_chunk_error(p, inf, c, "MissingHeader")
    ELSE IF "PNG_HAVE_IDAT" \in p.mode
    THEN Reject(p, inf, c, "OutOfPlaceAfterImageData")
    ELSE IF ~c.info_null /\ inf.valid
    THEN Reject(p, inf, c, "Duplicate")
    ELSE Decode(p, inf, c, u)

(***************************************************************************)
(* The session.                                                            *)
(***************************************************************************)
NoColor == [gray |-> 0, red |-> 0, green |-> 0, blue |-> 0]

NoInfo == [valid |-> FALSE, num_trans |-> 0, trans_alpha |-> <<>>,
           trans_alpha_at |-> "NULL", trans_color |-> NoColor]

\* No handler call has just ended.
NoCall == [length |-> 0, seed |-> 1, crc_ok |-> TRUE, trunc |-> "none",
           info_null |-> FALSE, outcome |-> "none", fatal |-> FALSE,
           consumed |-> 0,
           stored |-> 0, finishes |-> 0, crc_at |-> -1]

\* The session as the framing layer may hand it to the handler: any flags,
\* any colour type, a palette size only with a palette; nothing about
\* transparency is set yet.
Init ==
    /\ \E m \in SUBSET ModeFlags, ct \in ColorTypes, n \in PaletteSizes :
          /\ ("PNG_HAVE_PLTE" \notin m => n = 0)
          /\ png = [mode |-> m, color_type |-> ct, num_palette |-> n,
                    num_trans |-> 0, trans_color |-> NoColor,
                    trans_alpha |-> "NULL"]
    /\ info = NoInfo
    /\ call = NoCall
    /\ entry = [png |-> png, info |-> info]

\* A fatal error ends the session: nothing runs after it.
Aborted == call.fatal

\* One call of the handler on the next chunk of the stream.
Handle_tRNS ==
    /\ call = NoCall
    /\ \E c \in Chunks, u \in UninitBytes :
          LET r == png_handle_tRNS(png, info, c, u)
          IN  /\ png' = r.png
              /\ info' = r.info
              /\ call' = [length |-> c.length, seed |-> c.seed,
                          crc_ok |-> c.crc_ok, trunc |-> c.trunc,
                          info_null |-> c.info_null, outcome |-> r.outcome,
                          fatal |-> r.fatal,
                          consumed |-> r.consumed, stored |-> r.stored,
                          finishes |-> r.finishes, crc_at |-> r.crc_at]
              /\ entry' = [png |-> png, info |-> info]

\* The framing layer has processed a palette chunk of n entries.
Handle_PLTE ==
    /\ call = NoCall
    /\ "PNG_HAVE_IHDR" \in png.mode
    /\ "PNG_HAVE_IDAT" \notin png.mode
    /\ "PNG_HAVE_PLTE" \notin png.mode
    /\ \E n \in {k \in PaletteSizes : k <= PNG_MAX_PALETTE_LENGTH} :
          png' = [png EXCEPT !.mode = @ \cup {"PNG_HAVE_PLTE"},
                             !.num_palette = n]
    /\ call' = NoCall
    /\ entry' = [png |-> png', info |-> info]
    /\ UNCHANGED info

\* The framing layer has reached the image data.
Handle_IDAT ==
    /\ call = NoCall
    /\ "PNG_HAVE_IHDR" \in png.mode
    /\ "PNG_HAVE_IDAT" \notin png.mode
    /\ png' = [png EXCEPT !.mode = @ \cup {"PNG_HAVE_IDAT"}]
    /\ call' = NoCall
    /\ entry' = [png |-> png', info |-> info]
    /\ UNCHANGED info

\* The handler has returned to the chunk loop, which goes on to the next
\* chunk of the stream.
Return ==
    /\ call # NoCall
    /\ ~Aborted
    /\ call' = NoCall
    /\ entry' = [png |-> png, info |-> info]
    /\ UNCHANGED <<png, info>>

Next == Handle_tRNS \/ Handle_PLTE \/ Handle_IDAT \/ Return

Spec == Init /\ [][Next]_vars

(***************************************************************************)
(* The vocabulary of the properties.                                       *)
(***************************************************************************)
\* A handler call has just ended.
Called == call # NoCall

\* Every read of the call found the bytes it asked for.
ReadsSucceed == call.trunc = "none"

\* The call was passed the session's info record.
WithInfo == ~call.info_null

HaveHeader(p) == "PNG_HAVE_IHDR" \in p.mode
HaveImageData(p) == "PNG_HAVE_IDAT" \in p.mode
HavePalette(p) == "PNG_HAVE_PLTE" \in p.mode

\* The three preconditions held when the call was entered.
PreconditionsHeld ==
    HaveHeader(entry.png) /\ ~HaveImageData(entry.png) /\ ~entry.info.valid

Min(a, b) == IF a <= b THEN a ELSE b

\* The payload of the call's chunk, in stream order.
Payload == [i \in 1 .. call.length |-> StreamByte(call.seed, i)]

\* The chunk's length is one the colour type at entry decodes.
WellFormed ==
    LET p == entry.png
    IN  \/ p.color_type = PNG_COLOR_TYPE_GRAY /\ call.length = 2
        \/ p.color_type = PNG_COLOR_TYPE_RGB /\ call.length = 6
        \/ /\ p.color_type = PNG_COLOR_TYPE_PALETTE
           /\ HavePalette(p)
           /\ call.length >= 1
           /\ call.length <= Min(p.num_palette, PNG_MAX_PALETTE_LENGTH)

\* Neither record differs from what it was when the call was entered.
Untouched == png = entry.png /\ info = entry.info

(***************************************************************************)
(* C1.  All-or-nothing mutation: a handler call either returns Ok having   *)
(* committed a checksum-verified transparency value, or leaves every field *)
(* of the session state and of the info record, png_ptr->trans_color and   *)
(* png_ptr->num_trans included, as it was on entry.  Stated for the calls  *)
(* that are passed the info record and whose reads succeed.                *)
(***************************************************************************)
C1_AllOrNothing ==
    (Called /\ WithInfo /\ ReadsSucceed) =>
        \/ call.outcome = "Ok" /\ call.crc_ok /\ info.valid
        \/ Untouched

(***************************************************************************)
(* C2.  Checksum-gated commit: when the preconditions hold and the payload *)
(* decodes but the checksum is invalid, the call ends in ChecksumMismatch, *)
(* transparency_valid stays false and the info record stores nothing; and  *)
(* transparency_valid turns true only in a call whose checksum is valid.   *)
(***************************************************************************)
C2_ChecksumGatedCommit ==
    /\ (Called /\ ReadsSucceed /\ PreconditionsHeld /\ WellFormed
            /\ ~call.crc_ok) =>
          /\ call.outcome = "ChecksumMismatch"
          /\ ~info.valid
          /\ info = entry.info
    /\ (Called /\ info.valid /\ ~entry.info.valid) => call.crc_ok

C2_Witness ==
    /\ Called /\ ReadsSucceed /\ PreconditionsHeld /\ WellFormed
    /\ WithInfo
    /\ ~call.crc_ok
    /\ call.outcome = "ChecksumMismatch"
    /\ ~info.valid

(***************************************************************************)
(* C3.  Duplicate rejection: once a call has committed, every later call   *)
(* that is passed the info record, with have_header true and               *)
(* have_image_data false, ends in Duplicate whatever its colour type,      *)
(* length, payload and checksum verdict, and leaves the info record as it  *)
(* was.  (transparency_valid is true on entry only after a commit.)        *)
(***************************************************************************)
C3_DuplicateRejection ==
    (Called /\ WithInfo /\ ReadsSucceed /\ entry.info.valid
        /\ HaveHeader(entry.png) /\ ~HaveImageData(entry.png)) =>
        /\ call.outcome = "Duplicate"
        /\ ~call.fatal
        /\ info = entry.info

C3_Witness ==
    /\ Called /\ WithInfo /\ ReadsSucceed /\ entry.info.valid
    /\ HaveHeader(entry.png) /\ ~HaveImageData(entry.png)
    /\ WellFormed /\ call.crc_ok
    /\ call.outcome = "Duplicate"

(***************************************************************************)
(* C4.  A missing header is the only fatal outcome: with have_header false *)
(* the call ends in the fatal MissingHeader whatever the other flags, the  *)
(* colour type, the length and the payload, and changes neither record;    *)
(* with have_header true a call whose reads succeed ends in Ok or in a     *)
(* benign error.                                                           *)
(***************************************************************************)
C4_MissingHeaderOnlyFatal ==
    /\ (Called /\ ~HaveHeader(entry.png)) =>
          /\ call.outcome = "MissingHeader"
          /\ call.fatal
          /\ Untouched
    /\ (Called /\ HaveHeader(entry.png) /\ ReadsSucceed) =>
          /\ call.outcome \in {"Ok"} \cup BenignOutcomes
          /\ ~call.fatal

C4_Witness ==
    /\ Called /\ ~HaveHeader(entry.png)
    /\ HaveImageData(entry.png) /\ HavePalette(entry.png)
    /\ call.length = 2 /\ call.trunc = "payload"
    /\ call.outcome = "MissingHeader" /\ call.fatal

C6_PreconditionOrder ==
    /\ (Called /\ ~HaveHeader(entry.png)) => call.outcome = "MissingHeader"
    /\ (Called /\ ReadsSucceed /\ HaveHeader(entry.png)
            /\ HaveImageData(entry.png)) =>
          call.outcome = "OutOfPlaceAfterImageData"
    /\ (Called /\ ReadsSucceed /\ WithInfo /\ HaveHeader(entry.png)
            /\ ~HaveImageData(entry.png) /\ entry.info.valid) =>
          call.outcome = "Duplicate"

C6_Witness ==
    /\ Called /\ ReadsSucceed /\ WithInfo
    /\ HaveHeader(entry.png) /\ HaveImageData(entry.png)
    /\ entry.info.valid
    /\ call.outcome = "OutOfPlaceAfterImageData"

(***************************************************************************)
(* C7.  Palette acceptance: with the preconditions satisfied a palette     *)
(* chunk is refused with OutOfPlaceBeforePalette without a palette; else   *)
(* with InvalidLength unless 1 <= length <= min(num_palette, 256); else    *)
(* exactly length bytes are read and, the checksum being valid, the info   *)
(* record holds those bytes in payload order and transparency_valid.       *)
(***************************************************************************)
C7_PaletteAcceptance ==
    (Called /\ ReadsSucceed /\ WithInfo /\ PreconditionsHeld
        /\ entry.png.color_type = PNG_COLOR_TYPE_PALETTE) =>
        IF ~HavePalette(entry.png)
        THEN call.outcome = "OutOfPlaceBeforePalette" /\ call.stored = 0
        ELSE IF ~(call.length >= 1 /\ call.length <=
                    Min(entry.png.num_palette, PNG_MAX_PALETTE_LENGTH))
        THEN call.outcome = "InvalidLength" /\ call.stored = 0
        ELSE /\ call.stored = call.length
             /\ call.consumed = call.length
             /\ call.crc_ok =>
                   /\ call.outcome = "Ok"
                   /\ info.valid
                   /\ info.num_trans = call.length
                   /\ info.trans_alpha = Payload

C7_Witness ==
    /\ Called /\ ReadsSucceed /\ WithInfo /\ PreconditionsHeld
    /\ entry.png.color_type = PNG_COLOR_TYPE_PALETTE
    /\ entry.png.num_palette = PNG_MAX_PALETTE_LENGTH
    /\ call.length = 3
    /\ call.outcome = "Ok"
    /\ info.valid
    /\ info.trans_alpha = <<10, 20, 30>>

(***************************************************************************)
(* C8.  Bounded palette read: whatever the length and the palette size, a  *)
(* call stores at most 256 bytes in readbuf, and a committed palette       *)
(* transparency has a length in 1 .. min(num_palette, 256).                *)
(***************************************************************************)
C8_BoundedPaletteRead ==
    /\ call.stored <= PNG_MAX_PALETTE_LENGTH
    /\ (png.color_type = PNG_COLOR_TYPE_PALETTE /\ info.valid) =>
          /\ Len(info.trans_alpha) >= 1
          /\ Len(info.trans_alpha) <=
                Min(png.num_palette, PNG_MAX_PALETTE_LENGTH)
          /\ info.num_trans = Len(info.trans_alpha)

C8_Witness ==
    /\ Called
    /\ entry.png.color_type = PNG_COLOR_TYPE_PALETTE
    /\ entry.png.num_palette = PNG_MAX_PALETTE_LENGTH + 1
    /\ call.length = PNG_MAX_PALETTE_LENGTH
    /\ call.stored = PNG_MAX_PALETTE_LENGTH
    /\ call.outcome = "Ok"
    /\ Len(info.trans_alpha) = PNG_MAX_PALETTE_LENGTH

(***************************************************************************)
(* C9.  As claimed: in Palette mode a length of 0 always yields            *)
(* InvalidLength, whatever have_palette and the palette size are, and with *)
(* have_palette true and a palette size of 0 every length yields           *)
(* InvalidLength.                                                          *)
(***************************************************************************)
C9_ZeroLengthAlwaysInvalid ==
    (Called /\ ReadsSucceed /\ WithInfo /\ PreconditionsHeld
        /\ entry.png.color_type = PNG_COLOR_TYPE_PALETTE) =>
        /\ call.length = 0 => call.outcome = "InvalidLength"
        /\ (HavePalette(entry.png) /\ entry.png.num_palette = 0) =>
              call.outcome = "InvalidLength"

\* C9 as amended: a length of 0 yields InvalidLength when have_palette is
\* true (OutOfPlaceBeforePalette when it is false) and never commits; with
\* have_palette true and a palette size of 0 every length yields
\* InvalidLength.
C9_ZeroLengthNeverCommits ==
    (Called /\ ReadsSucceed /\ WithInfo /\ PreconditionsHeld
        /\ entry.png.color_type = PNG_COLOR_TYPE_PALETTE) =>
        /\ call.length = 0 =>
              /\ call.outcome = IF HavePalette(entry.png)
                                THEN "InvalidLength"
                                ELSE "OutOfPlaceBeforePalette"
              /\ Untouched
        /\ (HavePalette(entry.png) /\ entry.png.num_palette = 0) =>
              call.outcome = "InvalidLength" /\ Untouched

C9_Witness ==
    /\ Called /\ ReadsSucceed /\ WithInfo /\ PreconditionsHeld
    /\ entry.png.color_type = PNG_COLOR_TYPE_PALETTE
    /\ HavePalette(entry.png)
    /\ entry.png.num_palette = SmallPalette
    /\ call.length = 0
    /\ call.outcome = "InvalidLength"

(***************************************************************************)
(* C10.  Gray decoding: with the preconditions satisfied every length      *)
(* other than 2 is refused with InvalidLength and leaves the state         *)
(* unchanged; for length 2, payload [hi, lo] and a valid checksum the      *)
(* committed value is the unsigned 16-bit hi * 256 + lo.                   *)
(***************************************************************************)
C10_GrayDecoding ==
    (Called /\ ReadsSucceed /\ WithInfo /\ PreconditionsHeld
        /\ entry.png.color_type = PNG_COLOR_TYPE_GRAY) =>
        IF call.length # 2
        THEN call.outcome = "InvalidLength" /\ Untouched
        ELSE call.crc_ok =>
                /\ call.outcome = "Ok"
                /\ info.valid
                /\ info.trans_color.gray =
                      StreamByte(call.seed, 1) * 256 + StreamByte(call.seed, 2)
                /\ info.trans_color.gray \in 0 .. 65535

C10_Witness ==
    /\ Called /\ ReadsSucceed /\ WithInfo /\ PreconditionsHeld
    /\ entry.png.color_type = PNG_COLOR_TYPE_GRAY
    /\ call.length = 2 /\ call.crc_ok
    /\ StreamByte(call.seed, 1) = 0 /\ StreamByte(call.seed, 2) = 42
    /\ call.outcome = "Ok"
    /\ info.valid
    /\ info.trans_color.gray = 42

(***************************************************************************)
(* C11.  Rgb decoding: with the preconditions satisfied every length other *)
(* than 6 is refused with InvalidLength; for length 6, payload [b0..b5]    *)
(* and a valid checksum the committed value is the red, green and blue     *)
(* samples b0*256+b1, b2*256+b3, b4*256+b5, in that order.                 *)
(***************************************************************************)
C11_RgbDecoding ==
    (Called /\ ReadsSucceed /\ WithInfo /\ PreconditionsHeld
        /\ entry.png.color_type = PNG_COLOR_TYPE_RGB) =>
        IF call.length # 6
        THEN call.outcome = "InvalidLength" /\ info = entry.info
        ELSE call.crc_ok =>
                /\ call.outcome = "Ok"
                /\ info.valid
                /\ info.trans_color.red =
                      StreamByte(call.seed, 1) * 256 + StreamByte(call.seed, 2)
                /\ info.trans_color.green =
                      StreamByte(call.seed, 3) * 256 + StreamByte(call.seed, 4)
                /\ info.trans_color.blue =
                      StreamByte(call.seed, 5) * 256 + StreamByte(call.seed, 6)

C11_Witness ==
    /\ Called /\ ReadsSucceed /\ WithInfo /\ PreconditionsHeld
    /\ entry.png.color_type = PNG_COLOR_TYPE_RGB
    /\ call.length = 6 /\ call.crc_ok
    /\ Payload = <<0, 42, 0, 2, 0, 3>>
    /\ call.outcome = "Ok"
    /\ info.valid
    /\ info.trans_color.red = 42
    /\ info.trans_color.green = 2
    /\ info.trans_color.blue = 3

(***************************************************************************)
(* C12.  Alpha modes always reject: with the preconditions satisfied, a    *)
(* call in GrayAlpha or RgbAlpha mode ends in InvalidForAlphaMode whatever *)
(* the length, the palette state and the checksum verdict, drains the      *)
(* chunk and commits nothing.                                              *)
(***************************************************************************)
C12_AlphaModesReject ==
    (Called /\ ReadsSucceed /\ PreconditionsHeld
        /\ entry.png.color_type \in {PNG_COLOR_TYPE_GRAY_ALPHA,
                                     PNG_COLOR_TYPE_RGB_ALPHA}) =>
        /\ call.outcome = "InvalidForAlphaMode"
        /\ ~call.fatal
        /\ call.consumed = call.length
        /\ call.finishes = 1
        /\ call.stored = 0
        /\ Untouched
        /\ ~info.valid

C12_Witness ==
    /\ Called /\ ReadsSucceed /\ WithInfo /\ PreconditionsHeld
    /\ entry.png.color_type = PNG_COLOR_TYPE_GRAY_ALPHA
    /\ HavePalette(entry.png)
    /\ call.length = 2 /\ call.crc_ok
    /\ call.outcome = "InvalidForAlphaMode"
    /\ call.consumed = 2

(***************************************************************************)
(* C13.  The variant matches the colour mode: whenever transparency_valid  *)
(* is true the info record stores exactly the variant of the session's     *)
(* colour type (the gray sample for Gray, the three samples for Rgb, the   *)
(* alpha bytes for Palette), nothing is ever stored for GrayAlpha or       *)
(* RgbAlpha, and the fields of the other variants are as they were before  *)
(* the commit: no alpha bytes for Gray and Rgb, no colour for Palette.     *)
(***************************************************************************)
C13_VariantMatchesMode ==
    info.valid =>
        /\ png.color_type \in {PNG_COLOR_TYPE_GRAY, PNG_COLOR_TYPE_RGB,
                               PNG_COLOR_TYPE_PALETTE}
        /\ png.color_type = PNG_COLOR_TYPE_GRAY =>
              /\ info.num_trans = 1
              /\ info.trans_alpha = NoInfo.trans_alpha
              /\ info.trans_color.red = NoColor.red
              /\ info.trans_color.green = NoColor.green
              /\ info.trans_color.blue = NoColor.blue
        /\ png.color_type = PNG_COLOR_TYPE_RGB =>
              /\ info.num_trans = 1
              /\ info.trans_alpha = NoInfo.trans_alpha
              /\ info.trans_color.gray = NoColor.gray
        /\ png.color_type = PNG_COLOR_TYPE_PALETTE =>
              /\ Len(info.trans_alpha) >= 1
              /\ info.trans_color = NoColor

(***************************************************************************)
(* C14.  A truncated stream is a distinct fatal condition: a call that     *)
(* reads a chunk whose stream ends early, in the payload or in the         *)
(* checksum, ends in the fatal ShortRead, not in Ok nor in a benign error, *)
(* and does not set transparency_valid; a call whose stream is whole never *)
(* ends in ShortRead.  (Without the header nothing is read.)               *)
(***************************************************************************)
C14_ShortReadIsFatal ==
    /\ (Called /\ HaveHeader(entry.png) /\ ~ReadsSucceed) =>
          /\ call.outcome = "ShortRead"
          /\ call.fatal
          /\ call.outcome \notin {"Ok"} \cup BenignOutcomes
          /\ info = entry.info
    /\ (Called /\ ReadsSucceed) => call.outcome # "ShortRead"

C14_Witness ==
    /\ Called /\ WithInfo /\ PreconditionsHeld /\ WellFormed
    /\ entry.png.color_type = PNG_COLOR_TYPE_GRAY
    /\ call.trunc = "crc"
    /\ call.outcome = "ShortRead" /\ call.fatal
    /\ png.num_trans = 1
    /\ ~info.valid

(***************************************************************************)
(* Two decode sessions side by side (SpecTwo).      The same four          *)
(* variables, each now indexed by the session:                             *)
(*   png[s], info[s] : the records of session s                            *)
(*   call[s]         : the handler calls session s has made so far, in     *)
(*                     order, each with its chunk, the uninitialised       *)
(*                     content of its readbuf and its outcome              *)
(*   entry[s]        : the records of session s when it began              *)
(* A step is one handler call of one session: the handler keeps nothing    *)
(* outside its arguments and its local readbuf.                            *)
(***************************************************************************)
\* The number of handler calls the two sessions make together.
MaxTwoCalls == 3

Sessions == {1, 2}

\* The chunks the sessions are fed: whole streams, the info record passed.
TwoChunks ==
    { c \in Chunks : /\ c.length \in {1, 2}
                     /\ c.trunc = "none"
                     /\ ~c.info_null
                     /\ (c.seed = 1 /\ c.crc_ok) \/ (c.seed = 2 /\ ~c.crc_ok) }

\* The sessions begin after the header, gray or with a palette.
TwoStarts ==
    { [mode |-> {"PNG_HAVE_IHDR", "PNG_HAVE_PLTE"}, color_type |-> ct,
       num_palette |-> SmallPalette, num_trans |-> 0, trans_color |-> NoColor,
       trans_alpha |-> "NULL"] :
        ct \in {PNG_COLOR_TYPE_GRAY, PNG_COLOR_TYPE_PALETTE} }

InitTwo ==
    /\ png \in [Sessions -> TwoStarts]
    /\ info = [s \in Sessions |-> NoInfo]
    /\ call = [s \in Sessions |-> <<>>]
    /\ entry = [s \in Sessions |-> [png |-> png[s], info |-> info[s]]]

\* The calls made so far by the two sessions.
TwoCalls(logs) == Len(logs[1]) + Len(logs[2])

\* The last call of the session was fatal.
AbortedIn(log) ==
    log # <<>> /\ log[Len(log)].outcome \in FatalOutcomes

\* HandleIn with the tRNS flag kept in one place for all the sessions.
HandleIn_SharedFlag(ps, infs, s, c, u) ==
    png_handle_tRNS(ps[s],
                    [infs[s] EXCEPT !.valid =
                        \E t \in DOMAIN infs : infs[t].valid],
                    c, u)

\* The handler called by session s: it is passed that session's png_ptr
\* and info_ptr, and has no static or global data.
HandleIn(ps, infs, s, c, u) == png_handle_tRNS(ps[s], infs[s], c, u)

\* One handler call of one session.
CallIn ==
    /\ TwoCalls(call) < MaxTwoCalls
    /\ \E s \in Sessions, c \in TwoChunks, u \in UninitBytes :
          /\ ~AbortedIn(call[s])
          /\ LET r == HandleIn(png, info, s, c, u)
             IN  /\ png' = [png EXCEPT ![s] = r.png]
                 /\ info' = [info EXCEPT ![s] = r.info]
                 /\ call' = [call EXCEPT ![s] =
                                Append(@, [c |-> c, u |-> u,
                                           outcome |-> r.outcome])]
          /\ UNCHANGED entry

NextTwo == CallIn

SpecTwo == InitTwo /\ [][NextTwo]_vars

\* The calls of log made one after the other on the records p and inf, with
\* no other session: the records they leave and their outcomes.
RECURSIVE RunAlone(_, _, _)
RunAlone(p, inf, log) ==
    IF log = <<>> THEN [png |-> p, info |-> inf, outcomes |-> <<>>]
    ELSE LET r == png_handle_tRNS(p, inf, Head(log).c, Head(log).u)
             rest == RunAlone(r.png, r.info, Tail(log))
         IN  [png |-> rest.png, info |-> rest.info,
              outcomes |-> <<r.outcome>> \o rest.outcomes]

C16_CopyOnCommit ==
    /\ info.trans_alpha_at # "readbuf"
    /\ (Called /\ WithInfo /\ call.outcome = "Ok"
            /\ entry.png.color_type = PNG_COLOR_TYPE_PALETTE) =>
          /\ info.trans_alpha_at = "info"
          /\ info.trans_alpha = Payload
          /\ png.trans_alpha # info.trans_alpha_at

(***************************************************************************)
(* C17.  At most one commit per session: once the info record's valid flag *)
(* is set, no later handler call clears it or changes the stored           *)
(* transparency value or its count, whether the call is passed the info    *)
(* record or not and whichever test rejects it; so the flag goes from      *)
(* false to true at most once.                                             *)
(***************************************************************************)
C17_AtMostOneCommit ==
    (Called /\ entry.info.valid) => (info.valid /\ info = entry.info)

\* A call without the info record passes the duplicate test of a committed
\* session, decodes another payload and returns Ok; the record keeps its
\* value.
C17_Witness ==
    /\ Called
    /\ entry.info.valid
    /\ call.info_null
    /\ call.outcome = "Ok"
    /\ entry.png.color_type = PNG_COLOR_TYPE_PALETTE
    /\ Payload # info.trans_alpha
    /\ png.num_trans # info.num_trans
    /\ info = entry.info

(***************************************************************************)
(* C18.  A benign rejection does not poison the session: whatever calls    *)
(* came before without committing, a call that has the header, no image    *)
(* data, a length well-formed for the colour type and a valid checksum     *)
(* returns Ok, and the info record then holds what the same chunk commits  *)
(* as the first call of a fresh session (the bytes of readbuf that no read *)
(* filled being arbitrary in both).  The calls before it are covered by    *)
(* the first conjunct: a benign rejection other than Duplicate changes     *)
(* nothing the handler's tests read.                                       *)
(***************************************************************************)
\* The benign rejections other than Duplicate.
PoisonFree ==
    {"OutOfPlaceBeforePalette", "InvalidLength", "InvalidForAlphaMode",
     "ChecksumMismatch"}

\* The session of entry.png before any tRNS call.
FreshSession ==
    [entry.png EXCEPT !.num_trans = 0, !.trans_color = NoColor,
                      !.trans_alpha = "NULL"]

\* What the call's chunk commits as the first call of a fresh session.
FreshCommits ==
    { png_handle_tRNS(FreshSession, NoInfo,
                      [length |-> call.length, seed |-> call.seed,
                       crc_ok |-> call.crc_ok, trunc |-> call.trunc,
                       info_null |-> call.info_null], u).info :
        u \in UninitBytes }

C18_RejectionDoesNotPoison ==
    /\ (Called /\ call.outcome \in PoisonFree) =>
          /\ png.mode = entry.png.mode
          /\ png.color_type = entry.png.color_type
          /\ png.num_palette = entry.png.num_palette
          /\ info.valid = entry.info.valid
    /\ (Called /\ WithInfo /\ ReadsSucceed /\ PreconditionsHeld /\ WellFormed
          /\ call.crc_ok) =>
          /\ call.outcome = "Ok"
          /\ info.valid
          /\ info \in FreshCommits

\* The call follows a checksum mismatch that left its decoded colour and a
\* zero count in the png_struct.
C18_Witness ==
    /\ Called /\ WithInfo /\ ReadsSucceed /\ PreconditionsHeld /\ WellFormed
    /\ call.crc_ok
    /\ entry.png.trans_color # NoColor
    /\ entry.png.num_trans = 0
    /\ entry.png.trans_color # png.trans_color
    /\ call.outcome = "Ok"

(***************************************************************************)
(* The crash demo: process_data of crashy_fixed.c.  One run of the         *)
(* function is a behaviour of SpecCrashy, which uses the four variables as *)
(*   entry : the input, as the bytes data[0 .. size-1] are laid out        *)
(*   call  : the position in the function and the loop index i             *)
(*   info  : the local buffer: bytes copied, index of the NUL, the text    *)
(*   png   : the reads of data so far: highest index read, matches found   *)
(***************************************************************************)
\* char buffer[16];
BufferSize == 16

\* The length of "CRASH", the 5 of lines 17, 22 and 23.
PatternLen == 5

\* The longest input drawn.
MaxSize == 18

CRASH == <<67, 82, 65, 83, 72>>
DIV0 == <<68, 73, 86, 48>>
DIV5 == <<68, 73, 86, 53>>
NULLPTR == <<78, 85, 76, 76, 80, 84, 82>>
Filler == 120

Heads == {<<>>, DIV0, DIV5, NULLPTR}

\* The places the pattern is put at: none, one, or two that do not overlap.
Placements ==
    {{}} \cup {{j} : j \in 0 .. MaxSize}
         \cup {{j, k} : j \in 0 .. MaxSize, k \in 0 .. MaxSize}

\* The inputs: a size, a head at offset 0, the pattern at the places of at,
\* the filler everywhere else.
CrashyInputs ==
    { [size |-> n, head |-> h, at |-> a] :
        n \in 0 .. MaxSize, h \in Heads, a \in Placements }

ValidInput(inp) ==
    /\ Len(inp.head) <= inp.size
    /\ \A k \in inp.at : k >= Len(inp.head) /\ k + PatternLen <= inp.size
    /\ \A j, k \in inp.at : j < k => j + PatternLen <= k

\* data[i], for 0 <= i < size.
DataAt(inp, i) ==
    IF i < Len(inp.head) THEN inp.head[i + 1]
    ELSE IF \E k \in inp.at : k <= i /\ i < k + PatternLen
    THEN LET k == CHOOSE k \in inp.at : k <= i /\ i < k + PatternLen
         IN  CRASH[i - k + 1]
    ELSE Filler

\* memcmp(data + off, pat, n) == 0
memcmp_eq(inp, off, pat, n) ==
    \A j \in 0 .. n - 1 : DataAt(inp, off + j) = pat[j + 1]

\* a - b in size_t: unsigned, wrapping.  The model keeps a word of 30 bits,
\* wide enough for every size drawn.
SizeSub(a, b) == (a - b) % (2 ^ 30)

\* The copy of crashy.c, which the fix replaces: memcpy(buffer, data, size).
CopySize_Unchecked(size) == size

\* size < sizeof(buffer) ? size : sizeof(buffer) - 1
CopySize(size) == IF size < BufferSize THEN size ELSE BufferSize - 1

Max(a, b) == IF a >= b THEN a ELSE b

InitCrashy ==
    /\ entry \in {inp \in CrashyInputs : ValidInput(inp)}
    /\ call = [pc |-> "size_check", i |-> 0]
    /\ info = [copy_size |-> 0, nul_at |-> -1, text |-> <<>>]
    /\ png = [read_to |-> -1, found |-> {}]

\* if (size < 5) return;
CheckSize ==
    /\ call.pc = "size_check"
    /\ call' = [call EXCEPT !.pc = IF entry.size < PatternLen
                                   THEN "returned" ELSE "scan"]
    /\ UNCHANGED <<png, info, entry>>

\* One turn of the loop: the memcmp at i and, on a match, the copy into
\* buffer and the NUL after it.
Scan ==
    /\ call.pc = "scan"
    /\ call.i <= SizeSub(entry.size, PatternLen)
    /\ LET hit == memcmp_eq(entry, call.i, CRASH, PatternLen)
           copy_size == CopySize(entry.size)
           read_cmp == Max(png.read_to, call.i + PatternLen - 1)
       IN  /\ png' = [read_to |-> IF hit THEN Max(read_cmp, copy_size - 1)
                                  ELSE read_cmp,
                      found |-> IF hit THEN png.found \cup {call.i}
                                ELSE png.found]
           /\ info' = IF hit
                      THEN [copy_size |-> copy_size,
                            nul_at |-> copy_size,
                            text |-> [j \in 1 .. copy_size |->
                                         DataAt(entry, j - 1)]]
                      ELSE info
    /\ call' = [call EXCEPT !.i = @ + 1]
    /\ UNCHANGED entry

\* The loop ends; then
\* if (size >= 10 && data[0] == 'D' && data[1] == 'I' && data[2] == 'V')
\*     100 / (data[3] - '0')
Divide ==
    /\ call.pc = "scan"
    /\ ~(call.i <= SizeSub(entry.size, PatternLen))
    /\ LET taken == entry.size >= 10 /\ memcmp_eq(entry, 0, DIV0, 3)
       IN  /\ call' = [call EXCEPT !.pc =
                          IF taken /\ DataAt(entry, 3) - 48 = 0
                          THEN "division_by_zero" ELSE "null_check"]
           /\ png' = [png EXCEPT !.read_to =
                          IF taken THEN Max(@, 3) ELSE Max(@, 0)]
    /\ UNCHANGED <<info, entry>>

\* if (size >= 8 && memcmp(data, "NULLPTR", 7) == 0) *ptr = 42;
Deref ==
    /\ call.pc = "null_check"
    /\ LET taken == entry.size >= 8 /\ memcmp_eq(entry, 0, NULLPTR, 7)
       IN  /\ call' = [call EXCEPT !.pc = IF taken THEN "null_dereference"
                                          ELSE "returned"]
           /\ png' = [png EXCEPT !.read_to =
                          IF entry.size >= 8 THEN Max(@, 6) ELSE @]
    /\ UNCHANGED <<info, entry>>

NextCrashy == CheckSize \/ Scan \/ Divide \/ Deref

SpecCrashy == InitCrashy /\ [][NextCrashy]_vars

(***************************************************************************)
(* C19.  The fixed crash demo has no more buffer overflow: for every input *)
(* size and every position the pattern is found at, the number of bytes    *)
(* copied into buffer and the index of the NUL written after them stay     *)
(* inside the 16 bytes (copy_size <= 15); no read of data goes past the    *)
(* end of the input, and the loop bound size - 5 is only evaluated when    *)
(* size >= 5.                                                              *)
(***************************************************************************)
C19_NoBufferOverflow ==
    /\ info.copy_size <= BufferSize - 1
    /\ info.nul_at < BufferSize
    /\ Len(info.text) = info.copy_size
    /\ info.copy_size <= entry.size
    /\ png.read_to < entry.size
    /\ \A i \in png.found : i + PatternLen <= entry.size
    /\ (call.pc = "scan" => entry.size >= PatternLen)

\* The pattern was found twice, the second time past the end of buffer, in
\* an input longer than buffer; the copy was cut to 15 bytes.
C19_Witness ==
    /\ entry.size > BufferSize
    /\ Cardinality(png.found) = 2
    /\ \E i \in png.found : i >= BufferSize - PatternLen + 1
    /\ info.copy_size = BufferSize - 1
    /\ info.nul_at = BufferSize - 1
    /\ call.pc = "returned"

====
